---- MODULE Spec2Model ----
(***************************************************************************)
(* A model of scarlet's Source (src/scarlet/source.py): the frame and its  *)
(* bounding box, recentering, resizing with reprojection of the            *)
(* morphology, the compilation of the constraint specification into        *)
(* proximal operators, the linear error propagation (no-PSF branch), and    *)
(* the initialisation of sed and morphology from an image.                 *)
(*                                                                         *)
(* Conventions.                                                            *)
(*  - A center coordinate is the numerator n of the rational n/SubPixel.   *)
(*  - Array indices are 0-based as in the code; a flat array is a function *)
(*    on 0..n-1 and a list is a TLA+ sequence.                             *)
(*  - slice(a, b) is [none |-> FALSE, start |-> a, stop |-> b] and         *)
(*    slice(None) is SliceNone.                                            *)
(*  - A dict is a function from a set of key strings to integers           *)
(*    (True/False are 1/0).                                                *)
(*  - An operator object of the collaborating libraries is a record        *)
(*    [name, arg, shape, ops]; None is the record NoneOp.                  *)
(***************************************************************************)
EXTENDS Integers, Sequences, FiniteSets, TLC

VARIABLES K, B, center, bottom, top, left, right, bb, sed, morph, Gamma,
          constraints, prox_sed, prox_morph, Ls, proxs_g, built,
          raised, last, ret

vars == <<K, B, center, bottom, top, left, right, bb, sed, morph, Gamma,
          constraints, prox_sed, prox_morph, Ls, proxs_g, built,
          raised, last, ret>>

(* ------------------------------ bounds -------------------------------- *)
\* centers lie on the grid of multiples of 1/SubPixel
SubPixel == 2
\* requested frame sizes are 2*h+1 for h in 0..MaxHalf
MaxHalf == 1
\* full images have 1..MaxImg rows and columns
MaxImg == 2
\* number of components
MaxK == 2
\* number of bands
MaxB == 2
\* a constraint specification uses at most MaxKeys distinct keys
MaxKeys == 2
\* weights are integers in 0..MaxW
MaxW == 1
\* a weight array has at most MaxCells entries
MaxCells == 4

(* ------------------------------ helpers ------------------------------- *)
Max(a, b) == IF a >= b THEN a ELSE b
Min(a, b) == IF a <= b THEN a ELSE b

\* a[i] for i in 0..n-1, all zero (np.zeros)
Zeros(n) == [i \in 0..(n-1) |-> 0]

\* np.round of n/SubPixel: to the nearest integer, halves to the even one
Round(n) ==
    LET q == n \div SubPixel
        r == n % SubPixel
    IN  IF 2 * r < SubPixel THEN q
        ELSE IF 2 * r > SubPixel THEN q + 1
        ELSE IF q % 2 = 0 THEN q ELSE q + 1

\* center_int of a center <<y, x>>
center_int(c) == <<Round(c[1]), Round(c[2])>>

SliceNone == [none |-> TRUE, start |-> 0, stop |-> 0]
Slice(a, b) == [none |-> FALSE, start |-> a, stop |-> b]

\* Python's slice.indices(n) for step 1: negative bounds wrap around once,
\* then both are clipped to 0..n
SliceBound(v, n) == IF v < 0 THEN Max(v + n, 0) ELSE Min(v, n)
SliceStart(s, n) == IF s.none THEN 0 ELSE SliceBound(s.start, n)
SliceStop(s, n) == IF s.none THEN n ELSE SliceBound(s.stop, n)
\* number of indices the slice selects on an axis of length n
SliceLen(s, n) == Max(0, SliceStop(s, n) - SliceStart(s, n))
\* the i-th (0-based) index the slice selects
SliceAt(s, n, i) == SliceStart(s, n) + i

(* --------------------------- frame manager ---------------------------- *)
\* a size argument is <<s>> (a scalar) or <<h, w, ...>> (an iterable)
SizeOf(size) == IF Len(size) = 1 THEN <<size[1], size[1]>> ELSE <<size[1], size[2]>>

\* a faulty variant of _set_frame that forgets the central pixel
set_frame_even(self, c, size) ==
    LET sz == SizeOf(size)
        y_ == center_int(c)[1]
        x_ == center_int(c)[2]
        bo == y_ - (sz[1] \div 2)
        to == y_ + (sz[1] \div 2)
        le == x_ - (sz[2] \div 2)
        ri == x_ + (sz[2] \div 2)
    IN  [self EXCEPT !.center = c, !.bottom = bo, !.top = to, !.left = le, !.right = ri,
                     !.bb = <<SliceNone, Slice(Max(0, bo), to), Slice(Max(0, le), ri)>>]

\* Source._set_frame
set_frame(self, c, size) ==
    LET sz == SizeOf(size)
        y_ == center_int(c)[1]
        x_ == center_int(c)[2]
        bo == y_ - (sz[1] \div 2)
        to == y_ + (sz[1] \div 2) + 1
        le == x_ - (sz[2] \div 2)
        ri == x_ + (sz[2] \div 2) + 1
    IN  [self EXCEPT !.center = c, !.bottom = bo, !.top = to, !.left = le, !.right = ri,
                     !.bb = <<SliceNone, Slice(Max(0, bo), to), Slice(Max(0, le), ri)>>]

\* the properties Nx, Ny and shape
Nx(self) == self.right - self.left
Ny(self) == self.top - self.bottom
shape(self) == <<self.B, Ny(self), Nx(self)>>

\* the Gamma that self._gammaOp(dx, shape) returns: the transformations module
\* is a collaborator, so the operator is identified by what was asked of it
gammaOp(dx, shp) == [dx |-> dx, shape |-> shp]

\* a faulty variant of set_center that takes the offset before it moves the
\* frame, from the center the source had
set_center_old_offset(self, c) ==
    LET s1 == set_frame(self, c, <<Ny(self), Nx(self)>>)
        ci == center_int(self.center)
        dx == <<self.center[1] - SubPixel * ci[1], self.center[2] - SubPixel * ci[2]>>
    IN  [s1 EXCEPT !.Gamma = gammaOp(dx, shape(s1))]

\* Source.set_center
set_center(self, c) ==
    LET s1 == set_frame(self, c, <<Ny(self), Nx(self)>>)
        ci == center_int(s1.center)
        dx == <<s1.center[1] - SubPixel * ci[1], s1.center[2] - SubPixel * ci[2]>>
    IN  [s1 EXCEPT !.Gamma = gammaOp(dx, shape(s1))]

\* Source.get_slice_for
get_slice_for(self, im_shape) ==
    LET NY == im_shape[2]
        NX == im_shape[3]
        l == Max(0, -self.left)
        b == Max(0, -self.bottom)
        r == Nx(self) - Max(0, self.right - NX)
        t == Ny(self) - Max(0, self.top - NY)
    IN  <<SliceNone, Slice(b, t), Slice(l, r)>>

(* ----------------------- constraint compiler -------------------------- *)
MkOp(name, arg, shp, ops) == [name |-> name, arg |-> arg, shape |-> shp, ops |-> ops]
NoShape == <<0, 0>>
\* Python's None where an operator is expected
NoneOp == MkOp("None", 0, NoShape, <<>>)
\* proxmin.operators
prox_plus == MkOp("prox_plus", 0, NoShape, <<>>)
prox_unity_plus == MkOp("prox_unity_plus", 0, NoShape, <<>>)
prox_zero == MkOp("prox_zero", 0, NoShape, <<>>)
prox_id == MkOp("prox_id", 0, NoShape, <<>>)
prox_hard(thresh) == MkOp("prox_hard", thresh, NoShape, <<>>)
prox_soft(thresh) == MkOp("prox_soft", thresh, NoShape, <<>>)
AlternatingProjections(ops, repeat) == MkOp("AlternatingProjections", repeat, NoShape, ops)
\* scarlet.operators
prox_strict_monotonic(shp, thresh) == MkOp("prox_strict_monotonic", thresh, shp, <<>>)
\* scarlet.transformations and proxmin.transformations
getRadialMonotonicOp(shp, useNearest) == MkOp("getRadialMonotonicOp", useNearest, shp, <<>>)
getSymmetryOp(shp) == MkOp("getSymmetryOp", 0, shp, <<>>)
get_gradient_x(shp, cx) == MkOp("get_gradient_x", cx, shp, <<>>)
get_gradient_y(shp, cy) == MkOp("get_gradient_y", cy, shp, <<>>)
\* a list that has not been compiled into an operator (prox_morph[k] while
\* set_constraints runs)
ListOf(ops) == MkOp("list", 0, NoShape, ops)
\* partial(operators.prox_cone, G=G) with G the dense operator of line 494
prox_cone(shp, useNearest) == MkOp("prox_cone", useNearest, shp, <<>>)

DirectKeys == {"+", "l0", "l1", "m"}
DualKeys == {"M", "S", "C", "X", "Y"}
AllKeys == DirectKeys \cup DualKeys
EmptyDict == [c \in {} |-> 0]

\* a constraint specification as the caller passes it
ConsNone == [kind |-> "None", dicts |-> <<>>]
ConsDict(d) == [kind |-> "dict", dicts |-> <<d>>]
ConsList(ds) == [kind |-> "list", dicts |-> ds]

\* self.constraints after lines 416-422: always a list, one dict per component
NormalizeConstraints(cons, k_) ==
    IF cons.kind = "None" THEN [k \in 1..k_ |-> EmptyDict]
    ELSE IF cons.kind = "dict" THEN [k \in 1..k_ |-> cons.dicts[1]]
    ELSE cons.dicts

\* the superset of all constraint keys (lines 435-437)
KeysOf(cl, k_) == UNION {DOMAIN cl[k] : k \in 1..k_}

\* the orders in which a set of keys can be iterated
RECURSIVE Perms(_)
Perms(S) == IF S = {} THEN {<<>>}
            ELSE UNION {{<<c>> \o p : p \in Perms(S \ {c})} : c \in S}

\* self.prox_morph[k].append(op): [[],] * K holds K references to ONE list
\* (line 432), so the append shows in every slot
AppendMorph(pm, k, op) == [j \in 1..Len(pm) |-> Append(pm[j], op)]

\* the operator a direct key contributes for a component (lines 446-466)
DirectOp(c, param, shp) ==
    IF c = "+" THEN prox_plus
    ELSE IF c = "l0" THEN prox_hard(param)
    ELSE IF c = "l1" THEN prox_soft(param)
    ELSE prox_strict_monotonic(shp, param)

\* for k in range(K): if c in constraints[k]: prox_morph[k].append(...)
RECURSIVE AppendDirect(_, _, _, _, _)
AppendDirect(pm, c, cl, shp, k) ==
    IF k > Len(cl) THEN pm
    ELSE IF c \in DOMAIN cl[k]
         THEN AppendDirect(AppendMorph(pm, k, DirectOp(c, cl[k][c], shp)), c, cl, shp, k + 1)
         ELSE AppendDirect(pm, c, cl, shp, k + 1)

\* a faulty variant of DualSlots that appends nothing for a component that
\* does not declare the key
DualSlotsNoPad(acc, c, cl, L, P) ==
    LET decl == SelectSeq([k \in 1..Len(cl) |-> k], LAMBDA k : c \in DOMAIN cl[k])
    IN  [acc EXCEPT !.Ls = @ \o [i \in 1..Len(decl) |-> L],
                    !.proxs_g = @ \o [i \in 1..Len(decl) |-> P[decl[i]]]]

\* for k in range(K): append (L, P[k]) if component k declares c, else
\* (None, None) (lines 472-478, 483-489, 505-512, 517-524)
DualSlots(acc, c, cl, L, P) ==
    [acc EXCEPT !.Ls = @ \o [k \in 1..Len(cl) |-> IF c \in DOMAIN cl[k] THEN L ELSE NoneOp],
                !.proxs_g = @ \o [k \in 1..Len(cl) |-> IF c \in DOMAIN cl[k] THEN P[k] ELSE NoneOp]]

\* the thresholded prox of each declaring component (lines 508-509, 520-521)
SoftOf(c, cl) == [k \in 1..Len(cl) |-> IF c \in DOMAIN cl[k] THEN prox_soft(cl[k][c]) ELSE NoneOp]

\* one pass of the loop "for c in keys" (lines 441-524); acc holds Ls[1],
\* proxs_g[1], prox_morph, the operators built so far and the exception
KeyStep(acc, c, cl, self) ==
    LET shp == <<Ny(self), Nx(self)>>
        k_ == Len(cl)
    IN  IF c \in DirectKeys THEN [acc EXCEPT !.pm = AppendDirect(acc.pm, c, cl, shp, 1)]
        ELSE IF c = "M" THEN
            \* constraints[0]["M"] is a KeyError when component 0 has no "M"
            IF "M" \notin DOMAIN cl[1] THEN [acc EXCEPT !.raised = "KeyError"]
            ELSE LET M == getRadialMonotonicOp(shp, cl[1]["M"])
                 IN  DualSlots([acc EXCEPT !.built = Append(@, M)], c, cl, M,
                               [k \in 1..k_ |-> prox_plus])
        ELSE IF c = "S" THEN
            LET S == getSymmetryOp(shp)
            IN  DualSlots([acc EXCEPT !.built = Append(@, S)], c, cl, S,
                          [k \in 1..k_ |-> prox_zero])
        ELSE IF c = "C" THEN
            \* self.constraints is a list here (line 422): it has no .get
            [acc EXCEPT !.raised = "AttributeError"]
        ELSE IF c = "X" THEN
            LET Gx == get_gradient_x(shp, Nx(self))
            IN  DualSlots([acc EXCEPT !.built = Append(@, Gx)], c, cl, Gx, SoftOf(c, cl))
        ELSE IF c = "Y" THEN
            LET Gy == get_gradient_y(shp, Ny(self))
            IN  DualSlots([acc EXCEPT !.built = Append(@, Gy)], c, cl, Gy, SoftOf(c, cl))
        ELSE acc

\* the loop over the keys in the order ord, left at the first exception
RECURSIVE KeyLoop(_, _, _, _, _)
KeyLoop(acc, ord, i, cl, self) ==
    IF i > Len(ord) \/ acc.raised # "none" THEN acc
    ELSE KeyLoop(KeyStep(acc, ord[i], cl, self), ord, i + 1, cl, self)

\* lines 528-535: the list of each component becomes one operator
LinkMorph(ops) ==
    IF Len(ops) = 0 THEN prox_id
    ELSE IF Len(ops) = 1 THEN ops[1]
    ELSE AlternatingProjections(ops, 1)

\* Source.set_constraints; ord is the order in which the set "keys" is iterated
set_constraints(self, cons, ord) ==
    LET cl == NormalizeConstraints(cons, self.K)
        acc0 == [Ls |-> <<>>, proxs_g |-> <<>>, pm |-> [k \in 1..self.K |-> <<>>],
                 built |-> <<>>, raised |-> "none"]
        acc == KeyLoop(acc0, ord, 1, cl, self)
    IN  [self EXCEPT !.constraints = cl,
                     !.Ls = acc.Ls,
                     !.proxs_g = acc.proxs_g,
                     !.prox_sed = [k \in 1..self.K |-> prox_unity_plus],
                     !.prox_morph = IF acc.raised = "none"
                                    THEN [k \in 1..self.K |-> LinkMorph(acc.pm[k])]
                                    ELSE [k \in 1..self.K |-> ListOf(acc.pm[k])],
                     !.built = acc.built,
                     !.raised = acc.raised]

(* ------------------------------ resize -------------------------------- *)
\* number of entries of a flat array
Size(a) == Cardinality(DOMAIN a)

\* m.reshape((k_, n)) of a list of rows, row-major; the total size must agree
ReshapeOK(m, k_, n) == Len(m) * (IF Len(m) = 0 THEN 0 ELSE Size(m[1])) = k_ * n
Reshape(m, k_, n) ==
    LET rl == Size(m[1])
    IN  [k \in 1..k_ |-> [i \in 0..(n - 1) |->
            m[(((k - 1) * n + i) \div rl) + 1][((k - 1) * n + i) % rl]]]

\* numpy's dst[sy, sx] = src[ty, tx] on 2D arrays stored flat: the selected
\* source block must have the shape of the selected target block, or length
\* 1 on an axis (broadcast); otherwise ValueError
AssignOK(dny, dnx, sy, sx, sny, snx, ty, tx) ==
    /\ SliceLen(ty, sny) = SliceLen(sy, dny) \/ SliceLen(ty, sny) = 1
    /\ SliceLen(tx, snx) = SliceLen(sx, dnx) \/ SliceLen(tx, snx) = 1
Assign(dst, dny, dnx, sy, sx, src, sny, snx, ty, tx) ==
    [p \in 0..(dny * dnx - 1) |->
        LET y == p \div dnx
            x == p % dnx
            i == y - SliceStart(sy, dny)
            j == x - SliceStart(sx, dnx)
        IN  IF i >= 0 /\ i < SliceLen(sy, dny) /\ j >= 0 /\ j < SliceLen(sx, dnx)
            THEN src[SliceAt(ty, sny, IF SliceLen(ty, sny) = 1 THEN 0 ELSE i) * snx
                     + SliceAt(tx, snx, IF SliceLen(tx, snx) = 1 THEN 0 ELSE j)]
            ELSE dst[p]]

\* the overlap of the old frame (b..t) and the new frame (nb..nt) on one
\* axis, in the coordinates of the new frame (lines 252-253, 257-258)
new_slice_of(b, t, nb, nt) ==
    IF t - b = nt - nb THEN SliceNone
    ELSE Slice(Max(0, b - nb), Min(nt - nb, nt - nb - (nt - t)))

\* a faulty variant of old_slice_of that copies from the first row or column
\* of the old frame instead of from the start of the overlap
old_slice_from_zero(b, t, nb, nt) ==
    IF t - b = nt - nb THEN SliceNone
    ELSE Slice(0, Min(t - b, nt - nb))

\* the same overlap in the coordinates of the old frame (lines 254, 259)
old_slice_of(b, t, nb, nt) ==
    IF t - b = nt - nb THEN SliceNone
    ELSE Slice(Max(0, nb - b), Min(t - b, t - b - (t - nt)))

\* a faulty variant of SlicesDiffer that looks at the rows only
SlicesDifferY(new_slice, old_slice) == new_slice[2] # old_slice[2]

\* new_slice != old_slice (line 265)
SlicesDiffer(new_slice, old_slice) == new_slice # old_slice

\* Source.resize; ord is the iteration order set_constraints would use
resize(self, size, ord) ==
    LET t == self.top
        r == self.right
        b == self.bottom
        l == self.left
        s1 == [set_frame(self, self.center, size) EXCEPT !.raised = "none"]
        new_slice == <<SliceNone, new_slice_of(b, t, s1.bottom, s1.top),
                       new_slice_of(l, r, s1.left, s1.right)>>
        old_slice == <<SliceNone, old_slice_of(b, t, s1.bottom, s1.top),
                       old_slice_of(l, r, s1.left, s1.right)>>
    IN  IF ~SlicesDiffer(new_slice, old_slice) THEN s1
        ELSE IF ~ReshapeOK(self.morph, self.K, (t - b) * (r - l))
             THEN [s1 EXCEPT !.raised = "ValueError"]
        ELSE IF ~AssignOK(Ny(s1), Nx(s1), new_slice[2], new_slice[3],
                          t - b, r - l, old_slice[2], old_slice[3])
             THEN [s1 EXCEPT !.raised = "ValueError",
                             !.morph = [k \in 1..self.K |-> Zeros(Ny(s1) * Nx(s1))]]
        ELSE LET m_ == Reshape(self.morph, self.K, (t - b) * (r - l))
                 s2 == [s1 EXCEPT !.morph = [k \in 1..self.K |->
                            Assign(Zeros(Ny(s1) * Nx(s1)), Ny(s1), Nx(s1),
                                   new_slice[2], new_slice[3],
                                   m_[k], t - b, r - l, old_slice[2], old_slice[3])]]
                 s3 == set_center(s2, s2.center)
             IN  set_constraints(s3, ConsList(s3.constraints), ord)

(* -------------------------- error estimator --------------------------- *)
\* the factor 1e-3 of line 340: weights are held in units of 1/MaskScale
MaskScale == 1000

\* 1/sqrt(prec/MaskScale) as a symbolic value; numpy gives inf for 1/sqrt(0)
ErrVal(prec) == IF prec = 0 THEN [kind |-> "inf", prec |-> 0]
                ELSE [kind |-> "invsqrt", prec |-> prec]
\* the float 0 written into masked pixels
ZeroErr == [kind |-> "zero", prec |-> 0]

\* sum of f(1) .. f(n)
RECURSIVE SumTo(_, _)
SumTo(f, n) == IF n <= 0 THEN 0 ELSE f[n] + SumTo(f, n - 1)

\* w = np.zeros(self.shape); w[self.get_slice_for(weights.shape)] = weights[self.bb]
\* (lines 333-335 and 382-384); weights is [shape |-> <<B, NY, NX>>, val |-> bands]
FrameWeightsOK(self, weights) ==
    LET sl == get_slice_for(self, weights.shape)
    IN  AssignOK(Ny(self), Nx(self), sl[2], sl[3],
                 weights.shape[2], weights.shape[3], self.bb[2], self.bb[3])
FrameWeights(self, weights) ==
    LET sl == get_slice_for(self, weights.shape)
    IN  [b \in 1..self.B |->
            Assign(Zeros(Ny(self) * Nx(self)), Ny(self), Nx(self), sl[2], sl[3],
                   weights.val[b], weights.shape[2], weights.shape[3],
                   self.bb[2], self.bb[3])]

\* mask = (w.sum(axis=0) == 0) (line 338), as the set of masked pixels
MaskOf(w, n) == {p \in 0..(n - 1) : SumTo([b \in 1..Len(w) |-> w[b][p]], Len(w)) = 0}

\* w[:,~mask].min(axis=1) (line 340)
MinUnmasked(wb, unmasked) == CHOOSE v \in {wb[p] : p \in unmasked} :
                                 \A p \in unmasked : v <= wb[p]

\* for mek in me: mek[mask] = 0 (lines 361-363)
MaskErrors(me, mask) ==
    [k \in 1..Len(me) |-> [p \in DOMAIN me[k] |-> IF p \in mask THEN ZeroErr ELSE me[k][p]]]

\* Source.get_morph_error without a psf: [raised, val]
get_morph_error(self, weights) ==
    IF ~FrameWeightsOK(self, weights) THEN [raised |-> "ValueError", val |-> <<>>]
    ELSE
    LET n == Ny(self) * Nx(self)
        w == FrameWeights(self, weights)
        mask == MaskOf(w, n)
        unmasked == (0..(n - 1)) \ mask
    IN  IF mask # {} /\ unmasked = {}
        THEN \* min of an array without elements
             [raised |-> "ValueError", val |-> <<>>]
        ELSE
        LET w2 == [b \in 1..self.B |-> [p \in 0..(n - 1) |->
                      IF p \in mask THEN MinUnmasked(w[b], unmasked)
                      ELSE MaskScale * w[b][p]]]
            me == [k \in 1..Len(self.sed) |-> [p \in 0..(n - 1) |->
                      ErrVal(SumTo([b \in 1..self.B |->
                                 self.sed[k][b] * w2[b][p] * self.sed[k][b]], self.B))]]
        IN  [raised |-> "none", val |-> IF mask # {} THEN MaskErrors(me, mask) ELSE me]

\* sum of f[0] .. f[n-1]
RECURSIVE SumFlat(_, _)
SumFlat(f, n) == IF n <= 0 THEN 0 ELSE f[n - 1] + SumFlat(f, n - 1)

\* Source.get_sed_error without a psf: [raised, val], one value per band
get_sed_error(self, weights) ==
    IF ~FrameWeightsOK(self, weights) THEN [raised |-> "ValueError", val |-> <<>>]
    ELSE
    LET n == Ny(self) * Nx(self)
        w == FrameWeights(self, weights)
    IN  [raised |-> "none",
         val |-> [k \in 1..Len(self.morph) |-> [b \in 1..self.B |->
                    ErrVal(MaskScale * SumFlat([p \in 0..(n - 1) |->
                              self.morph[k][p] * w[b][p] * self.morph[k][p]], n))]]]

(* --------------------------- initialisation --------------------------- *)
\* a float that is the quotient num/den; den = 0 is the nan of 0/0
Quot(num, den) == [num |-> num, den |-> den]
\* the float sum + tiny of line 312, tiny = 1e-10
PlusTiny(s) == [sum |-> s, tiny |-> 1]

\* an integer index i on an axis of length n: negative indices count from the
\* end, anything outside -n..n-1 is an IndexError
IndexOK(i, n) == i >= 0 - n /\ i < n
PyIndex(i, n) == IF i < 0 THEN i + n ELSE i

\* Source.init_source; img is [shape |-> <<B, NY, NX>>, val |-> bands] and u
\* is what np.empty((1, B)) holds before it is written
init_source(self, img, u) ==
    LET b_ == img.shape[1]
        NY == img.shape[2]
        NX == img.shape[3]
        y_ == center_int(self.center)[1]
        x_ == center_int(self.center)[2]
    IN  IF ~(IndexOK(y_, NY) /\ IndexOK(x_, NX))
        THEN [self EXCEPT !.sed = <<[b \in 1..b_ |-> u[b]]>>, !.raised = "IndexError"]
        ELSE
        LET pix == [b \in 1..b_ |-> img.val[b][PyIndex(y_, NY) * NX + PyIndex(x_, NX)]]
            \* prox_unity_plus: negative entries become 0, then the row is
            \* divided by its sum
            plus == [b \in 1..b_ |-> Max(pix[b], 0)]
            cx == Nx(self) \div 2
            cy == Ny(self) \div 2
        IN  [self EXCEPT
                !.sed = <<[b \in 1..b_ |-> Quot(plus[b], SumTo(plus, b_))]>>,
                !.morph = <<[p \in 0..(Ny(self) * Nx(self) - 1) |->
                              IF p = cy * Nx(self) + cx THEN PlusTiny(SumTo(pix, b_)) ELSE 0]>>,
                !.raised = "none"]

(* ---------------------------- construction ---------------------------- *)
\* the object before __init__ has set anything
Blank == [K |-> 0, B |-> 0, center |-> <<0, 0>>, bottom |-> 0, top |-> 0, left |-> 0,
          right |-> 0, bb |-> <<>>, sed |-> <<>>, morph |-> <<>>, Gamma |-> <<>>,
          constraints |-> <<>>, prox_sed |-> <<>>, prox_morph |-> <<>>, Ls |-> <<>>,
          proxs_g |-> <<>>, built |-> <<>>, raised |-> "none"]

\* Source.__init__(center, shape, K, psf=None, constraints)
Construct(c, shp, k_, cons, ord) ==
    LET s1 == set_frame([Blank EXCEPT !.B = shp[1]], c, <<shp[2], shp[3]>>)
        s2 == [s1 EXCEPT !.K = k_,
                         !.sed = [k \in 1..k_ |-> [b \in 1..shp[1] |-> 0]],
                         !.morph = [k \in 1..k_ |-> Zeros(Ny(s1) * Nx(s1))]]
        s3 == set_center(s2, c)
    IN  set_constraints(s3, cons, ord)

(* ------------------------------- state -------------------------------- *)
Self == [K |-> K, B |-> B, center |-> center, bottom |-> bottom, top |-> top,
         left |-> left, right |-> right, bb |-> bb, sed |-> sed, morph |-> morph,
         Gamma |-> Gamma, constraints |-> constraints, prox_sed |-> prox_sed,
         prox_morph |-> prox_morph, Ls |-> Ls, proxs_g |-> proxs_g, built |-> built,
         raised |-> raised]

Is(s) ==
    /\ K = s.K /\ B = s.B /\ center = s.center
    /\ bottom = s.bottom /\ top = s.top /\ left = s.left /\ right = s.right
    /\ bb = s.bb /\ sed = s.sed /\ morph = s.morph /\ Gamma = s.Gamma
    /\ constraints = s.constraints /\ prox_sed = s.prox_sed
    /\ prox_morph = s.prox_morph /\ Ls = s.Ls /\ proxs_g = s.proxs_g
    /\ built = s.built /\ raised = s.raised

Becomes(s) ==
    /\ K' = s.K /\ B' = s.B /\ center' = s.center
    /\ bottom' = s.bottom /\ top' = s.top /\ left' = s.left /\ right' = s.right
    /\ bb' = s.bb /\ sed' = s.sed /\ morph' = s.morph /\ Gamma' = s.Gamma
    /\ constraints' = s.constraints /\ prox_sed' = s.prox_sed
    /\ prox_morph' = s.prox_morph /\ Ls' = s.Ls /\ proxs_g' = s.proxs_g
    /\ built' = s.built /\ raised' = s.raised

source == <<K, B, center, bottom, top, left, right, bb, sed, morph, Gamma,
            constraints, prox_sed, prox_morph, Ls, proxs_g, built>>

NoRet == <<>>
\* the last call: its name, its argument, whether resize rebuilt, the frame
\* size (Ny, Nx) before the call, and the order in which set_constraints,
\* if the call ran it, iterated over the keys
Call(op, arg, rebuilt, old, ord) ==
    [op |-> op, arg |-> arg, rebuilt |-> rebuilt, old |-> old, ord |-> ord]

(* ------------------------------ inputs -------------------------------- *)
\* frame sizes: odd, as a scalar or as (height, width)
OddSizes == {2 * h + 1 : h \in 0..MaxHalf}
SizeArgs == {<<h>> : h \in OddSizes} \cup {<<h, w>> : h \in OddSizes, w \in OddSizes}

\* centers: the rows from two above the image to one below the largest
\* image, with the column on the diagonal, on the anti-diagonal or at 0, and
\* the same sub-pixel fraction on both axes
CenterPixels == (0 - 2)..(MaxImg + 1)
Centers == {<<SubPixel * y + f, SubPixel * x + f>> :
               <<y, x>> \in {q \in CenterPixels \X CenterPixels :
                                q[2] \in {q[1], MaxImg - 1 - q[1], 0}},
               f \in 0..(SubPixel - 1)}

ImShapes(b_) == {<<b_, ny, nx>> : ny \in 1..MaxImg, nx \in 1..MaxImg}

(* ------------------------------ actions ------------------------------- *)
\* source.set_center(c)
SetCenter(c) ==
    /\ Becomes([set_center(Self, c) EXCEPT !.raised = "none"])
    /\ last' = Call("set_center", c, FALSE, <<Ny(Self), Nx(Self)>>, <<>>)
    /\ ret' = NoRet

\* source.resize(size)
Resize(size, ord) ==
    LET s1 == set_frame(Self, center, size)
    IN  /\ Becomes(resize(Self, size, ord))
        /\ last' = Call("resize", size,
                        SlicesDiffer(
                          <<SliceNone, new_slice_of(bottom, top, s1.bottom, s1.top),
                            new_slice_of(left, right, s1.left, s1.right)>>,
                          <<SliceNone, old_slice_of(bottom, top, s1.bottom, s1.top),
                            old_slice_of(left, right, s1.left, s1.right)>>),
                        <<Ny(Self), Nx(Self)>>, ord)
        /\ ret' = NoRet

\* source.get_slice_for(im_shape)
GetSliceFor(im_shape) ==
    /\ ret' = get_slice_for(Self, im_shape)
    /\ last' = Call("get_slice_for", im_shape, FALSE, <<Ny(Self), Nx(Self)>>, <<>>)
    /\ raised' = "none"
    /\ UNCHANGED source

\* source.set_constraints(cons), the set of keys iterated in the order ord
SetConstraints(cons, ord) ==
    /\ Becomes(set_constraints(Self, cons, ord))
    /\ last' = Call("set_constraints", cons, FALSE, <<Ny(Self), Nx(Self)>>, ord)
    /\ ret' = NoRet

\* source.get_morph_error(weights)
GetMorphError(weights) ==
    /\ ret' = get_morph_error(Self, weights).val
    /\ raised' = get_morph_error(Self, weights).raised
    /\ last' = Call("get_morph_error", weights, FALSE, <<Ny(Self), Nx(Self)>>, <<>>)
    /\ UNCHANGED source

\* source.get_sed_error(weights)
GetSedError(weights) ==
    /\ ret' = get_sed_error(Self, weights).val
    /\ raised' = get_sed_error(Self, weights).raised
    /\ last' = Call("get_sed_error", weights, FALSE, <<Ny(Self), Nx(Self)>>, <<>>)
    /\ UNCHANGED source

\* source.init_source(img)
InitSource(img, u) ==
    /\ Becomes(init_source(Self, img, u))
    /\ last' = Call("init_source", img, FALSE, <<Ny(Self), Nx(Self)>>, <<>>)
    /\ ret' = NoRet

\* the optimizer driver writes sed and morph between calls: every pixel of
\* every component gets its own positive value, or only the central pixel
\* is set (the point source of init_source)
TaggedMorph(self) ==
    [k \in 1..self.K |-> [p \in 0..(Ny(self) * Nx(self) - 1) |->
        (k - 1) * Ny(self) * Nx(self) + p + 1]]
PeakMorph(self) ==
    [k \in 1..self.K |-> [p \in 0..(Ny(self) * Nx(self) - 1) |->
        IF p = (Ny(self) \div 2) * Nx(self) + (Nx(self) \div 2) THEN 10 ELSE 0]]
RampSed(self) == [k \in 1..self.K |-> [b \in 1..self.B |-> b]]

OptimizerUpdate ==
    /\ morph' \in {TaggedMorph(Self), PeakMorph(Self)}
    /\ sed' = RampSed(Self)
    /\ last' = Call("update", <<>>, FALSE, <<Ny(Self), Nx(Self)>>, <<>>)
    /\ ret' = NoRet
    /\ raised' = "none"
    /\ UNCHANGED <<K, B, center, bottom, top, left, right, bb, Gamma, constraints,
                   prox_sed, prox_morph, Ls, proxs_g, built>>

(* ------------------ frames and slices: Init, Next, Spec ---------------- *)
Init ==
    /\ \E c \in Centers, sz \in SizeArgs :
          /\ Is(Construct(c, <<1, SizeOf(sz)[1], SizeOf(sz)[2]>>, 1, ConsNone, <<>>))
          /\ last = Call("__init__", sz, FALSE, <<0, 0>>, <<>>)
    /\ ret = NoRet

Next ==
    \/ \E c \in Centers : SetCenter(c)
    \/ \E sz \in SizeArgs : Resize(sz, <<>>)
    \/ \E shp \in ImShapes(B) : GetSliceFor(shp)

Spec == Init /\ [][Next]_vars

(* ------------------------------ claims -------------------------------- *)
\* what the slice contract asks of one axis: the local slice s (on the frame
\* axis of length n) and the bounding-box slice t (on the image axis of
\* length N) select equally many indices, and the i-th local index l
\* corresponds to the image index lo + l
AxisContract(s, n, t, N, lo) ==
    /\ SliceLen(s, n) = SliceLen(t, N)
    /\ \A i \in 0..(SliceLen(s, n) - 1) : SliceAt(t, N, i) = lo + SliceAt(s, n, i)

\* C1: for every frame and every image shape, get_slice_for and bb select the
\* same number of rows and columns, and local row i / column j is image row
\* bottom+i / column left+j
C1_SliceContract ==
    last.op = "get_slice_for" =>
        /\ AxisContract(ret[2], top - bottom, bb[2], last.arg[2], bottom)
        /\ AxisContract(ret[3], right - left, bb[3], last.arg[3], left)

\* C2: the frame has the most recently requested height and width: the size
\* given to the constructor or to resize, which set_center and get_slice_for
\* keep
C2_FrameSize ==
    /\ (last.op = "__init__" => <<top - bottom, right - left>> = SizeOf(last.arg))
    /\ [][/\ last'.op = "resize" =>
                <<top' - bottom', right' - left'>> = SizeOf(last'.arg)
          /\ last'.op \in {"set_center", "get_slice_for"} =>
                <<top' - bottom', right' - left'>> = <<top - bottom, right - left>>]_vars

\* C2 witness: a 1 x 3 frame that resize made 3 x 1, whose rows start above
\* the image and whose columns end beyond the largest image
C2_Witness ==
    /\ last.op = "resize" /\ last.old = <<1, 3>> /\ SizeOf(last.arg) = <<3, 1>>
    /\ bottom < 0 /\ right > MaxImg

(* --------------- resize and morphology: SpecResize -------------------- *)
\* a center on a pixel inside the image and one between pixels, above it
ResizeCenters == {<<SubPixel, SubPixel>>, <<1 - 2 * SubPixel, SubPixel + 1>>}

InitResize ==
    /\ \E c \in ResizeCenters, sz \in SizeArgs, k_ \in 1..MaxK :
          /\ Is(Construct(c, <<1, SizeOf(sz)[1], SizeOf(sz)[2]>>, k_, ConsNone, <<>>))
          /\ last = Call("__init__", sz, FALSE, <<0, 0>>, <<>>)
    /\ ret = NoRet

NextResize ==
    \/ \E sz \in SizeArgs : Resize(sz, <<>>)
    \/ \E c \in ResizeCenters : SetCenter(c)
    \/ OptimizerUpdate

SpecResize == InitResize /\ [][NextResize]_vars

\* C3: after resize, the morphology of every component at the pixel of the
\* new frame with full-image coordinate (y, x) is the old value at (y, x) if
\* (y, x) was inside the old frame, and zero otherwise
C3_ResizeReprojection ==
    [][last'.op = "resize" =>
         \A k \in 1..K, y \in bottom'..(top' - 1), x \in left'..(right' - 1) :
            morph'[k][(y - bottom') * (right' - left') + (x - left')] =
               IF y >= bottom /\ y < top /\ x >= left /\ x < right
               THEN morph[k][(y - bottom) * (right - left) + (x - left)]
               ELSE 0]_vars

\* C3 witness: a frame that resize grew on one axis and shrank on the other,
\* holding a kept value at its center, next to an added pixel that is zero
C3_Witness ==
    /\ last.op = "resize" /\ last.rebuilt /\ raised = "none"
    /\ last.old = <<1, 3>> /\ <<top - bottom, right - left>> = <<3, 1>>
    /\ K = MaxK
    /\ morph[K][1] = (K - 1) * 3 + 2 /\ morph[K][0] = 0

\* C4: resize to the size the frame has changes neither morphology, center,
\* frame edges nor Gamma and does not rebuild; resize rebuilds whenever the
\* size changes on at least one axis
C4_ResizeIdempotence ==
    [][last'.op = "resize" =>
         IF SizeOf(last'.arg) = <<top - bottom, right - left>>
         THEN /\ ~last'.rebuilt
              /\ morph' = morph /\ center' = center /\ Gamma' = Gamma
              /\ <<bottom', top', left', right'>> = <<bottom, top, left, right>>
         ELSE last'.rebuilt]_vars

\* C4 witness: a resize to the size the frame has, which did not rebuild, on
\* a 3 x 3 frame with a sub-pixel offset and non-zero morphology
C4_Witness ==
    /\ last.op = "resize" /\ ~last.rebuilt
    /\ SizeOf(last.arg) = last.old /\ last.old = <<3, 3>>
    /\ Gamma.dx # <<0, 0>>
    /\ \E p \in DOMAIN morph[1] : morph[1][p] # 0

(* ------------------ constraint compiler: SpecConstraints --------------- *)
KeySets == {U \in SUBSET AllKeys : Cardinality(U) <= MaxKeys}
DictOn(U, v) == [c \in U |-> v]

\* the specifications given to the constructor: none, one mapping for all
\* components, or a list in which the first, the last or every component
\* declares the keys U (with its own index as parameter) and the others
\* declare nothing
ConsInputs(k_) ==
    {ConsNone}
    \cup {ConsDict(DictOn(U, 1)) : U \in KeySets}
    \cup {ConsList([k \in 1..k_ |-> IF k \in D THEN DictOn(U, k) ELSE EmptyDict]) :
             U \in KeySets, D \in {{1}, {k_}, 1..k_}}

\* the specifications given to later calls of set_constraints: none, one key
\* for all components (as one mapping or as a list), one key for the last
\* component only, or a different direct key for each component
OwnKey(k) == IF k = 1 THEN "+" ELSE IF k = 2 THEN "l1" ELSE IF k = 3 THEN "m" ELSE "l0"
ConsAgain(k_) ==
    {ConsNone}
    \cup {ConsDict(DictOn({c}, 1)) : c \in AllKeys}
    \cup {ConsList([k \in 1..k_ |-> IF k \in D THEN DictOn({c}, k) ELSE EmptyDict]) :
             c \in AllKeys, D \in {{k_}, 1..k_}}
    \cup {ConsList([k \in 1..k_ |-> DictOn({OwnKey(k)}, k)])}

OrdersOf(cons, k_) == Perms(KeysOf(NormalizeConstraints(cons, k_), k_))

InitConstraints ==
    /\ \E k_ \in 1..MaxK :
         \E cons \in ConsInputs(k_) :
           \E ord \in OrdersOf(cons, k_) :
             /\ Is(Construct(<<SubPixel, SubPixel>>, <<1, 3, 3>>, k_, cons, ord))
             /\ last = Call("__init__", cons, FALSE, <<0, 0>>, ord)
    /\ raised = "none"
    /\ ret = NoRet

NextConstraints ==
    \/ \E cons \in ConsAgain(K) : \E ord \in OrdersOf(cons, K) : SetConstraints(cons, ord)
    \/ \E sz \in {<<1>>, <<3>>} : \E ord \in Perms(KeysOf(constraints, K)) : Resize(sz, ord)

SpecConstraints == InitConstraints /\ [][NextConstraints]_vars

\* the last call ran set_constraints and it returned
Compiled ==
    /\ raised = "none"
    /\ last.op \in {"__init__", "set_constraints"} \/ (last.op = "resize" /\ last.rebuilt)

\* the direct keys component k declares
DirectOf(k) == DOMAIN constraints[k] \cap DirectKeys
Elems(q) == {q[i] : i \in 1..Len(q)}

\* C5: prox_morph[k] is built from exactly the direct keys component k itself
\* declares, one operator each: prox_id for none, the operator itself for
\* one, AlternatingProjections(..., repeat=1) for more than one
C5_PerComponentDirect ==
    Compiled =>
      \A k \in 1..K :
        LET own == {DirectOp(c, constraints[k][c], <<top - bottom, right - left>>) :
                       c \in DirectOf(k)}
        IN  IF Cardinality(DirectOf(k)) = 0 THEN prox_morph[k] = prox_id
            ELSE IF Cardinality(DirectOf(k)) = 1 THEN prox_morph[k] \in own
            ELSE /\ prox_morph[k].name = "AlternatingProjections"
                 /\ prox_morph[k].arg = 1
                 /\ Len(prox_morph[k].ops) = Cardinality(DirectOf(k))
                 /\ Elems(prox_morph[k].ops) = own

\* C6: for one component with the keys {"+", "l1"}, the operators given to
\* AlternatingProjections are [prox_plus, prox_soft], whatever the order in
\* which the keys are iterated
C6_CanonicalOrder ==
    (Compiled /\ K = 1 /\ DOMAIN constraints[1] = {"+", "l1"}) =>
        prox_morph[1] = AlternatingProjections(
                            <<prox_plus, prox_soft(constraints[1]["l1"])>>, 1)

\* the dualized keys in the order the last compilation met them
DualOrd == SelectSeq(last.ord, LAMBDA c : c \in DualKeys)
\* the library call that builds the linear operator of a dualized key
BuilderOf(c) == IF c = "M" THEN "getRadialMonotonicOp"
                ELSE IF c = "S" THEN "getSymmetryOp"
                ELSE IF c = "X" THEN "get_gradient_x"
                ELSE IF c = "Y" THEN "get_gradient_y"
                ELSE "None"

\* C7: when set_constraints returns, Ls[1] and proxs_g[1] have the same
\* length, K times the number of distinct dualized keys declared; in the
\* block of a key the slot of component k is (None, None) exactly when k does
\* not declare the key, and a declaring slot holds the operator of that key
C7_DualAlignment ==
    Compiled =>
        /\ Len(Ls) = Len(proxs_g)
        /\ Len(Ls) = K * Cardinality(KeysOf(constraints, K) \cap DualKeys)
        /\ Elems(DualOrd) = KeysOf(constraints, K) \cap DualKeys
        /\ Len(DualOrd) = Cardinality(Elems(DualOrd))
        /\ \A i \in 1..Len(DualOrd), k \in 1..K :
              LET j == (i - 1) * K + k
              IN  /\ (Ls[j] = NoneOp /\ proxs_g[j] = NoneOp)
                        <=> DualOrd[i] \notin DOMAIN constraints[k]
                  /\ DualOrd[i] \in DOMAIN constraints[k] =>
                        Ls[j].name = BuilderOf(DualOrd[i])

\* C7 witness: a recompilation through resize, after an earlier compilation,
\* of two dualized keys that the first of two components declares and the
\* second does not
C7_Witness ==
    /\ Compiled /\ last.op = "resize" /\ K = 2
    /\ DOMAIN constraints[1] = {"M", "S"} /\ DOMAIN constraints[2] = {}
    /\ Len(Ls) = 4

\* C9: whenever some component declares "C", set_constraints completes
\* without raising and appends for each component k a slot whose linear
\* operator is None and whose prox is the cone projection if k declares "C"
\* and None otherwise
C9_ConeKey ==
    (last.op = "set_constraints" /\ "C" \in KeysOf(constraints, K)) =>
        /\ raised = "none"
        /\ \E i \in 1..Len(DualOrd) :
              /\ DualOrd[i] = "C"
              /\ \A k \in 1..K :
                    /\ Ls[(i - 1) * K + k] = NoneOp
                    /\ proxs_g[(i - 1) * K + k] =
                          IF "C" \in DOMAIN constraints[k]
                          THEN prox_cone(<<top - bottom, right - left>>, 0)
                          ELSE NoneOp

\* C10: for a list of K >= 2 mappings of which at least one declares "M",
\* set_constraints completes without raising, builds the monotonicity operator
\* once, puts it with prox_plus in the slot of every declaring component and
\* (None, None) in the slot of every other component
C10_SharedMonotonic ==
    (/\ last.op = "set_constraints" /\ last.arg.kind = "list" /\ K >= 2
     /\ "M" \in KeysOf(constraints, K)) =>
        /\ raised = "none"
        /\ Cardinality({n \in 1..Len(built) : built[n].name = "getRadialMonotonicOp"}) = 1
        /\ \E i \in 1..Len(DualOrd), n \in 1..Len(built) :
              /\ DualOrd[i] = "M"
              /\ built[n].name = "getRadialMonotonicOp"
              /\ \A k \in 1..K :
                    LET j == (i - 1) * K + k
                    IN  IF "M" \in DOMAIN constraints[k]
                        THEN Ls[j] = built[n] /\ proxs_g[j] = prox_plus
                        ELSE Ls[j] = NoneOp /\ proxs_g[j] = NoneOp

(* ---------------------- error estimator: SpecErrors -------------------- *)
\* weight arrays (B, NY, NX) with entries in 0..MaxW
Weights(b_) ==
    UNION {{[shape |-> shp, val |-> v] :
               v \in [1..b_ -> [0..(shp[2] * shp[3] - 1) -> 0..MaxW]]} :
           shp \in {q \in ImShapes(b_) : q[1] * q[2] * q[3] <= MaxCells}}

\* centers above the image, on its first pixel, inside it and below it
ErrCenters == {<<SubPixel * y, 0>> : y \in {0 - 2, 0, 1, MaxImg + 1}}

InitErrors ==
    /\ \E c \in ErrCenters, sz \in {<<1>>, <<3>>}, k_ \in 1..MaxK, b_ \in 1..MaxB :
          /\ Is(Construct(c, <<b_, sz[1], sz[1]>>, k_, ConsNone, <<>>))
          /\ last = Call("__init__", sz, FALSE, <<0, 0>>, <<>>)
    /\ ret = NoRet

NextErrors ==
    \/ OptimizerUpdate
    \/ \E w \in Weights(B) : GetMorphError(w)
    \/ \E w \in Weights(B) : GetSedError(w)

SpecErrors == InitErrors /\ [][NextErrors]_vars

\* the weight of band b at the frame pixel p: the weight at its full-image
\* position, and zero outside the image
WeightAt(weights, b, p) ==
    LET y == bottom + (p \div (right - left))
        x == left + (p % (right - left))
    IN  IF y >= 0 /\ y < weights.shape[2] /\ x >= 0 /\ x < weights.shape[3]
        THEN weights.val[b][y * weights.shape[3] + x]
        ELSE 0
\* the frame pixels whose weight summed over the bands is zero
Masked(weights) ==
    {p \in 0..((top - bottom) * (right - left) - 1) :
        \A b \in 1..B : WeightAt(weights, b, p) = 0}

\* C8: get_morph_error and get_sed_error return, for every component, exactly
\* zero at every frame pixel whose weight summed over the bands is zero
C8_Masking ==
    last.op \in {"get_morph_error", "get_sed_error"} =>
        /\ raised = "none"
        /\ \A k \in 1..K, p \in Masked(last.arg) :
              p \in DOMAIN ret[k] /\ ret[k][p] = ZeroErr

(* ------------------- shapes of sed and morph: SpecShapes --------------- *)
\* a pixel holds at most MaxFlux in a band
MaxFlux == 1

\* square images (b_, n, n): band b holds f[b] at the first pixel and one less at
\* each following pixel, so that the pixels differ and some are negative
Images(b_) ==
    {[shape |-> shp,
      val |-> [b \in 1..b_ |-> [p \in 0..(shp[2] * shp[3] - 1) |-> f[b] - p]]] :
        shp \in {<<b_, n, n>> : n \in 1..MaxImg}, f \in [1..b_ -> 0..MaxFlux]}

\* what an array that was allocated but not written can hold
Unwritten(b_) == [1..b_ -> {Quot(0, 1), Quot(1, 1)}]
\* the unwritten content matters only when init_source leaves at the
\* IndexError
UnwrittenFor(self, img) ==
    IF IndexOK(center_int(self.center)[1], img.shape[2])
       /\ IndexOK(center_int(self.center)[2], img.shape[3])
    THEN {[b \in 1..img.shape[1] |-> Quot(0, 1)]}
    ELSE Unwritten(img.shape[1])

\* no constraint and a dualized one, whose operator depends on the frame
ShapeCons == {ConsNone, ConsDict(DictOn({"S"}, 1))}

\* centers above the image, on its first pixel and below it
ShapeCenters == {<<SubPixel * y, 0>> : y \in {0 - 2, 0, MaxImg + 1}}

InitShapes ==
    /\ \E c \in ShapeCenters, sz \in {<<1>>, <<3>>}, k_ \in 1..MaxK, b_ \in 1..MaxB :
          /\ Is(Construct(c, <<b_, sz[1], sz[1]>>, k_, ConsNone, <<>>))
          /\ last = Call("__init__", sz, FALSE, <<0, 0>>, <<>>)
    /\ ret = NoRet

NextShapes ==
    \/ \E c \in ShapeCenters : SetCenter(c)
    \/ \E sz \in {<<1>>, <<3>>} :
          \E ord \in Perms(KeysOf(constraints, K)) : Resize(sz, ord)
    \/ \E cons \in ShapeCons : \E ord \in OrdersOf(cons, K) : SetConstraints(cons, ord)
    \/ \E img \in Images(B) : \E u \in UnwrittenFor(Self, img) : InitSource(img, u)

SpecShapes == InitShapes /\ [][NextShapes]_vars

\* C11: after the constructor and after every call of set_center, resize,
\* set_constraints and init_source that returns, sed has K rows of B entries
\* and morph has K rows of Ny*Nx entries for the frame as it is
C11_ShapeInvariant ==
    raised = "none" =>
        /\ Len(sed) = K
        /\ \A k \in 1..Len(sed) : DOMAIN sed[k] = 1..B
        /\ Len(morph) = K
        /\ \A k \in 1..Len(morph) :
              DOMAIN morph[k] = 0..((top - bottom) * (right - left) - 1)

(* ------------------- derived state: SpecDerived ------------------------ *)
\* a center on a pixel, one half-way between pixels and one above and left
\* of the image
DerivedCenters == {<<SubPixel, SubPixel>>, <<1, SubPixel + 1>>, <<1 - 2 * SubPixel, 0 - 1>>}

\* constraint specifications the constructor accepts, each with an operator
\* that is built for the frame shape: none, a direct and a dualized key for
\* all components, two dualized keys for all components, and a list in which
\* only the first component declares keys
DerivedCons(k_) ==
    {ConsNone,
     ConsDict(DictOn({"m", "X"}, 1)),
     ConsDict(DictOn({"M", "S"}, 1)),
     ConsList([k \in 1..k_ |-> IF k = 1 THEN DictOn({"Y", "m"}, 1) ELSE EmptyDict])}

InitDerived ==
    /\ \E c \in DerivedCenters, sz \in {<<1>>, <<3>>}, k_ \in 1..MaxK :
         \E cons \in DerivedCons(k_) :
           \E ord \in OrdersOf(cons, k_) :
             /\ Is(Construct(c, <<1, sz[1], sz[1]>>, k_, cons, ord))
             /\ last = Call("__init__", cons, FALSE, <<0, 0>>, ord)
    /\ ret = NoRet

NextDerived ==
    \/ \E c \in DerivedCenters : SetCenter(c)
    \/ \E sz \in {<<1>>, <<3>>, <<3, 1>>} :
          \E ord \in Perms(KeysOf(constraints, K)) : Resize(sz, ord)
    \/ OptimizerUpdate

SpecDerived == InitDerived /\ [][NextDerived]_vars

\* the operators that are built for a frame shape
FrameOps == {"prox_strict_monotonic", "getRadialMonotonicOp", "getSymmetryOp",
             "get_gradient_x", "get_gradient_y", "prox_cone"}
\* an operator and the operators it links
OpsIn(op) == {op} \cup Elems(op.ops)
\* every operator the source holds for its constraints
HeldOps == UNION ({OpsIn(Ls[j]) : j \in 1..Len(Ls)}
                  \cup {OpsIn(proxs_g[j]) : j \in 1..Len(proxs_g)}
                  \cup {OpsIn(prox_morph[k]) : k \in 1..Len(prox_morph)})

\* Gamma is the operator requested for the offset of the center as it is and
\* for the shape as it is
GammaCurrent ==
    Gamma = [dx |-> <<center[1] - SubPixel * Round(center[1]),
                      center[2] - SubPixel * Round(center[2])>>,
             shape |-> <<B, top - bottom, right - left>>]

\* every held operator that is built for a frame shape was built for the
\* shape as it is, the gradients for the width and the height as they are
OperatorsCurrent ==
    \A o \in HeldOps :
        /\ o.name \in FrameOps => o.shape = <<top - bottom, right - left>>
        /\ o.name = "get_gradient_x" => o.arg = right - left
        /\ o.name = "get_gradient_y" => o.arg = top - bottom

\* C12: in every state after the constructor and any sequence of set_center
\* and resize, Gamma and the constraint operators are those of the current
\* center and frame shape; set_center changes neither the frame size, nor
\* sed, nor morph
C12_NoStaleState ==
    /\ [](GammaCurrent /\ OperatorsCurrent)
    /\ [][last'.op = "set_center" =>
             /\ <<top' - bottom', right' - left'>> = <<top - bottom, right - left>>
             /\ sed' = sed
             /\ morph' = morph]_vars

\* C12 witness: a set_center to a center between pixels on a 3 x 1 frame,
\* the size only resize gives, of a source with written sed and morph that
\* holds a gradient operator and a monotonicity operator
C12_Witness ==
    /\ last.op = "set_center" /\ <<top - bottom, right - left>> = <<3, 1>>
    /\ Gamma.dx # <<0, 0>> /\ center # <<SubPixel, SubPixel>>
    /\ K = MaxK
    /\ \E o \in HeldOps : o.name = "get_gradient_x" /\ o.shape = <<3, 1>>
    /\ \E o \in HeldOps : o.name = "prox_strict_monotonic" /\ o.shape = <<3, 1>>
    /\ \E p \in DOMAIN morph[K] : morph[K][p] # 0
    /\ sed[K][1] # 0

====
